---- MODULE Spec2Model ----
(***************************************************************************)
(* Training-loop orchestration of the repository:                          *)
(*   - ModelGAN.optimize_parameters (KAIR/models/model_gan.py): one call   *)
(*     is a generator phase followed by a discriminator phase;             *)
(*   - Trainer.train / test / terminate (RNAN-0.4/DN_RGB/code/trainer.py)  *)
(*     under the driver loop  while not terminate(): train(); test().      *)
(* The tensor library is abstracted: a loss is the set of its weighted     *)
(* terms, a network's parameters are one abstract value that an optimizer  *)
(* step changes, a gradient is the set of losses backpropagated into it.   *)
(***************************************************************************)
EXTENDS Integers, Sequences, FiniteSets

VARIABLES
    \* ---- ModelGAN ----
    opt,              \* the options read by define_loss / optimize_parameters
    pc,               \* position inside optimize_parameters
    current_step,     \* argument of the call in progress (or of the last call)
    D_requires_grad,  \* requires_grad of the discriminator's parameters
    loss_G_total,     \* the terms summed into loss_G_total in this call
    netG_params,      \* abstract value of the generator's parameters
    netD_params,      \* abstract value of the discriminator's parameters
    netG_grad,        \* losses accumulated in the generator's .grad
    netD_grad,        \* losses accumulated in the discriminator's .grad
    log_dict,         \* keys present in self.log_dict
    trace,            \* optimizer / autograd calls made by the call in progress
    seq,              \* <<n>>: the calls so far had current_step 0..n-1; <<>>: not
    firstG,           \* <<s>>: first generator step of an in-order run was at s
    \* ---- Trainer ----
    args,             \* args.epochs, args.test_only
    last_epoch,       \* scheduler.last_epoch
    ckp_log,          \* ckp.log: one row per evaluated epoch, one PSNR per scale
    tpc,              \* position of the driver / inside test()
    idx_scale,        \* loop index of test()
    epoch,            \* local 'epoch' of the test() in progress
    best,             \* local 'best' of test(): <<max values, first arg-max rows>>
    caller,           \* who called the test() in progress
    saved,            \* ckp.save calls, in order, each with the log and scales seen then
    scaleDone,        \* scales evaluated by the test() in progress
    nTrain,           \* train() calls so far
    nTest,            \* test() calls so far
    loaded            \* rows ckp.log held at construction (0: a fresh run)

ganVars == <<opt, pc, current_step, D_requires_grad, loss_G_total, netG_params,
             netD_params, netG_grad, netD_grad, log_dict, trace, seq, firstG>>
trVars == <<args, last_epoch, ckp_log, tpc, idx_scale, epoch, best, caller,
            saved, scaleDone, nTrain, nTest, loaded>>
vars == <<ganVars, trVars>>

\* ------------------------------------------------------------------ bounds
MaxStep == 4
MaxRatio == 3
MaxInit == 2
NumParamVals == 2
MaxEpochs == 2
MaxPsnr == 1
NumScales == 2
MaxLoad == 1

\* An option is <<>> (None) or <<v>>.
OptVals(n) == {<<>>} \cup {<<v>> : v \in 0..n}
WeightVals == {0, 1}
GanTypes == {"gan", "lsgan", "wgangp", "wgansoftplus", "ragan"}

\* ------------------------------------------------------- ModelGAN: helpers
\* Python truthiness of an option value: None and 0 are false.
Truthy(o) == o # <<>> /\ o[1] # 0

D_update_ratio == IF Truthy(opt.D_update_ratio) THEN opt.D_update_ratio[1] ELSE 1
D_init_iters == IF Truthy(opt.D_init_iters) THEN opt.D_init_iters[1] ELSE 0

\* The guard of the generator update ("updata D first").
UpdateG(step) == step % D_update_ratio = 0 /\ step > D_init_iters

\* Variant: the weight test written >= 0.
UseLoss_ge(w) == w >= 0

\* The weight test that includes the pixel / feature term.
UseLoss(w) == w > 0

\* The gan types for which the generator phase assigns D_loss.
G_GanTypes == {"gan", "lsgan", "wgangp", "ragan"}

\* loss_G_total as built by the generator phase: a set of <<term, weight>>.
GLossTerms ==
    (IF UseLoss(opt.G_lossfn_weight) THEN {<<"pixel", opt.G_lossfn_weight>>} ELSE {})
    \cup (IF UseLoss(opt.F_lossfn_weight) THEN {<<"feature", opt.F_lossfn_weight>>} ELSE {})
    \cup {<<"gan", opt.D_lossfn_weight>>}

\* Variant: D_optimizer built over the parameters of both networks.
D_optimizer_params_all == {"G", "D"}

\* The parameters each optimizer holds.
G_optimizer_params == {"G"}
D_optimizer_params == {"D"}

\* Optimizer.step on a parameter value.
Stepped(p) == (p + 1) % NumParamVals

\* The backward calls of the discriminator phase, in order.
DBackward ==
    IF opt.dist
    THEN IF opt.gan_type \in {"gan", "lsgan", "wgangp", "wgansoftplus"}
         THEN <<"l_d_real.backward", "l_d_fake.backward">>
         ELSE <<"l_d_fake.backward">>
    ELSE <<"loss_D_total.backward">>

\* The losses a discriminator-phase backward call backpropagates.
LossesOf(call) ==
    IF call = "loss_D_total.backward" THEN {"l_d_real", "l_d_fake"}
    ELSE IF call = "l_d_real.backward" THEN {"l_d_real"}
    ELSE {"l_d_fake"}

\* Whether the fake input of the discriminator phase is cut from the generator.
FakeDetached == TRUE

RECURSIVE LossesIn(_)
LossesIn(calls) ==
    IF calls = <<>> THEN {} ELSE LossesOf(Head(calls)) \cup LossesIn(Tail(calls))

\* ------------------------------------------------------- ModelGAN: actions
GanIdle ==
    /\ opt = [D_update_ratio |-> <<>>, D_init_iters |-> <<>>, gan_type |-> "gan",
              dist |-> FALSE, G_lossfn_weight |-> 1, F_lossfn_weight |-> 1,
              D_lossfn_weight |-> 1]
    /\ pc = "idle" /\ current_step = 0 /\ D_requires_grad = TRUE
    /\ loss_G_total = {} /\ netG_params = 0 /\ netD_params = 0
    /\ netG_grad = {} /\ netD_grad = {} /\ log_dict = {} /\ trace = <<>>
    /\ seq = <<0>> /\ firstG = <<>>

TrainerIdle ==
    /\ args = [epochs |-> 0, test_only |-> FALSE]
    /\ last_epoch = -1 /\ ckp_log = <<>> /\ tpc = "exit" /\ idx_scale = 0
    /\ epoch = 0 /\ best = <<>> /\ caller = "none" /\ saved = <<>>
    /\ scaleDone = {} /\ nTrain = 0 /\ nTest = 0 /\ loaded = 0

\* The state after init_train, for every setting of the options.
InitGAN ==
    /\ opt \in [D_update_ratio : OptVals(MaxRatio), D_init_iters : OptVals(MaxInit),
                gan_type : GanTypes, dist : BOOLEAN,
                G_lossfn_weight : WeightVals, F_lossfn_weight : WeightVals,
                D_lossfn_weight : WeightVals]
    /\ pc = "idle" /\ current_step = 0 /\ D_requires_grad = TRUE
    /\ loss_G_total = {} /\ netG_params = 0 /\ netD_params = 0
    /\ netG_grad = {} /\ netD_grad = {} /\ log_dict = {} /\ trace = <<>>
    /\ seq = <<0>> /\ firstG = <<>>
    /\ TrainerIdle

\* Lines 167-172: freeze D, clear G's gradients, forward G, loss_G_total = 0.
OptimizeBegin ==
    /\ pc = "idle"
    /\ \E s \in 0..MaxStep :
        /\ current_step' = s
        /\ seq' = IF seq # <<>> /\ seq[1] = s THEN <<s + 1>> ELSE <<>>
    /\ firstG' = IF seq' = <<>> THEN <<>> ELSE firstG
    /\ D_requires_grad' = FALSE
    /\ netG_grad' = {}
    /\ loss_G_total' = {}
    /\ trace' = <<"G_optimizer.zero_grad">>
    /\ pc' = "G_phase"
    /\ UNCHANGED <<opt, netG_params, netD_params, netD_grad, log_dict>>

\* Lines 174-193 with the guard true: compose the loss, backward, step.
GeneratorUpdate ==
    /\ pc = "G_phase"
    /\ UpdateG(current_step)
    /\ opt.gan_type \in G_GanTypes
    /\ loss_G_total' = GLossTerms
    /\ netG_grad' = netG_grad \cup {"loss_G_total"}
    /\ netD_grad' = IF D_requires_grad THEN netD_grad \cup {"loss_G_total"} ELSE netD_grad
    /\ netG_params' = IF "G" \in G_optimizer_params THEN Stepped(netG_params) ELSE netG_params
    /\ netD_params' = IF "D" \in G_optimizer_params THEN Stepped(netD_params) ELSE netD_params
    /\ trace' = trace \o <<"loss_G_total.backward", "G_optimizer.step">>
    /\ firstG' = IF seq # <<>> /\ firstG = <<>> THEN <<current_step>> ELSE firstG
    /\ pc' = "unfreeze"
    /\ UNCHANGED <<opt, current_step, D_requires_grad, log_dict, seq>>

\* Lines 174-190 with the guard true and a gan_type for which neither branch of
\* lines 183-189 assigns D_loss: line 190 reads an unbound local and raises.
GeneratorRaise ==
    /\ pc = "G_phase"
    /\ UpdateG(current_step)
    /\ opt.gan_type \notin G_GanTypes
    /\ loss_G_total' = GLossTerms \ {<<"gan", opt.D_lossfn_weight>>}
    /\ pc' = "raised"
    /\ UNCHANGED <<opt, current_step, D_requires_grad, netG_params, netD_params,
                   netG_grad, netD_grad, log_dict, trace, seq, firstG>>

\* Line 174 with the guard false.
GeneratorSkip ==
    /\ pc = "G_phase"
    /\ ~UpdateG(current_step)
    /\ pc' = "unfreeze"
    /\ UNCHANGED <<opt, current_step, D_requires_grad, loss_G_total, netG_params,
                   netD_params, netG_grad, netD_grad, log_dict, trace, seq, firstG>>

\* Lines 198-201: unfreeze D, clear D's gradients.
UnfreezeD ==
    /\ pc = "unfreeze"
    /\ D_requires_grad' = TRUE
    /\ netD_grad' = {}
    /\ trace' = Append(trace, "D_optimizer.zero_grad")
    /\ pc' = "D_phase"
    /\ UNCHANGED <<opt, current_step, loss_G_total, netG_params, netD_params,
                   netG_grad, log_dict, seq, firstG>>

\* Lines 203-240: the discriminator's forward and backward passes.
DiscriminatorBackward ==
    /\ pc = "D_phase"
    /\ trace' = trace \o DBackward
    /\ netD_grad' = IF D_requires_grad THEN netD_grad \cup LossesIn(DBackward) ELSE netD_grad
    /\ netG_grad' = IF FakeDetached THEN netG_grad ELSE netG_grad \cup {"l_d_fake"}
    /\ pc' = "D_step"
    /\ UNCHANGED <<opt, current_step, D_requires_grad, loss_G_total, netG_params,
                   netD_params, log_dict, seq, firstG>>

\* Lines 242-257: D_optimizer.step(), record the log, return.
DiscriminatorStep ==
    /\ pc = "D_step"
    /\ netD_params' = IF "D" \in D_optimizer_params THEN Stepped(netD_params) ELSE netD_params
    /\ netG_params' = IF "G" \in D_optimizer_params THEN Stepped(netG_params) ELSE netG_params
    /\ trace' = Append(trace, "D_optimizer.step")
    /\ log_dict' = log_dict
          \cup (IF UpdateG(current_step)
                THEN (IF opt.G_lossfn_weight > 0 THEN {"G_loss"} ELSE {})
                     \cup (IF opt.F_lossfn_weight > 0 THEN {"F_loss"} ELSE {})
                     \cup {"D_loss"}
                ELSE {})
          \cup {"D_real", "D_fake"}
    /\ pc' = "idle"
    /\ UNCHANGED <<opt, current_step, D_requires_grad, loss_G_total, netG_grad,
                   netD_grad, seq, firstG>>

NextGAN ==
    \/ OptimizeBegin /\ UNCHANGED trVars
    \/ GeneratorUpdate /\ UNCHANGED trVars
    \/ GeneratorRaise /\ UNCHANGED trVars
    \/ GeneratorSkip /\ UNCHANGED trVars
    \/ UnfreezeD /\ UNCHANGED trVars
    \/ DiscriminatorBackward /\ UNCHANGED trVars
    \/ DiscriminatorStep /\ UNCHANGED trVars

SpecGAN == InitGAN /\ [][NextGAN]_vars

\* -------------------------------------------------------- Trainer: helpers
PsnrVals == 0..MaxPsnr
Scales == 1..NumScales
Rows == [Scales -> PsnrVals]

\* torch.zeros(1, len(self.scale))
ZeroRow == [c \in Scales |-> 0]

RECURSIVE SeqsOf(_, _)
\* All sequences of length n over S.
SeqsOf(S, n) ==
    IF n = 0 THEN {<<>>}
    ELSE {Append(q, x) : q \in SeqsOf(S, n - 1), x \in S}

\* Column c of ckp.log: its maximum, and the 0-based row of its first maximum.
ColMax(log, c) ==
    CHOOSE m \in {log[r][c] : r \in DOMAIN log} : \A r \in DOMAIN log : log[r][c] <= m
ColArgMax(log, c) ==
    (CHOOSE r \in DOMAIN log :
        /\ log[r][c] = ColMax(log, c)
        /\ \A r2 \in DOMAIN log : log[r2][c] = ColMax(log, c) => r <= r2) - 1

\* self.ckp.log.max(0): (values, indices), one entry per scale.
LogMax(log) ==
    <<[c \in Scales |-> ColMax(log, c)], [c \in Scales |-> ColArgMax(log, c)]>>

\* Variant: the flag taken from the scale the loop ended on.
IsBest_lastScale(b, e) == b[2][NumScales] + 1 = e

\* is_best=(best[1][0] + 1 == epoch); scale index 0 is column 1 here.
IsBest(b, e) == b[2][1] + 1 = e

\* Variant: the comparison written >.
TerminateReturns_gt(e, epochs) == e > epochs

\* The value terminate() returns when test_only is false.
TerminateReturns(e, epochs) == e >= epochs

\* The scheduler's last_epoch after construction: -1, stepped once per loaded row.
SchedulerInit(rows) == -1 + rows

\* One scheduler.step().
SchedulerStep(e) == e + 1

\* The driver loop  while not terminate(): train(); test()  as positions.
DriverStart == "terminate"
DriverAfterTerminate(result) == IF result THEN "exit" ELSE "train"
DriverAfterTrain == "test"
DriverAfterTest == "terminate"

\* ------------------------------------------------------- Trainer: actions
InitTrainer ==
    /\ args \in [epochs : -1..MaxEpochs, test_only : BOOLEAN]
    /\ loaded \in 0..MaxLoad
    /\ ckp_log \in SeqsOf(Rows, loaded)
    /\ last_epoch = SchedulerInit(loaded)
    /\ tpc = DriverStart /\ idx_scale = 0 /\ epoch = 0 /\ best = <<>>
    /\ caller = "none" /\ saved = <<>> /\ scaleDone = {}
    /\ nTrain = 0 /\ nTest = 0
    /\ GanIdle

\* Lines 137-140: terminate() with test_only: run test(), then return True.
TerminateTestOnly ==
    /\ tpc = "terminate"
    /\ args.test_only
    /\ caller' = "terminate"
    /\ tpc' = "test"
    /\ UNCHANGED <<args, last_epoch, ckp_log, idx_scale, epoch, best, saved,
                   scaleDone, nTrain, nTest, loaded>>

\* Lines 141-143: terminate() without test_only; the driver leaves its loop on
\* True and calls train() on False.
Terminate ==
    /\ tpc = "terminate"
    /\ ~args.test_only
    /\ tpc' = DriverAfterTerminate(TerminateReturns(last_epoch + 1, args.epochs))
    /\ UNCHANGED <<args, last_epoch, ckp_log, idx_scale, epoch, best, caller, saved,
                   scaleDone, nTrain, nTest, loaded>>

\* Lines 32-75: train(); of its effects only scheduler.step() bears on the
\* epoch bookkeeping.  The driver calls test() next.
Train ==
    /\ tpc = "train"
    /\ last_epoch' = SchedulerStep(last_epoch)
    /\ nTrain' = nTrain + 1
    /\ caller' = "driver"
    /\ tpc' = DriverAfterTrain
    /\ UNCHANGED <<args, ckp_log, idx_scale, epoch, best, saved, scaleDone, nTest,
                   loaded>>

\* Lines 78-83: test() reads the epoch and appends a zero row to ckp.log.
TestBegin ==
    /\ tpc = "test"
    /\ epoch' = last_epoch + 1
    /\ ckp_log' = Append(ckp_log, ZeroRow)
    /\ idx_scale' = 1
    /\ scaleDone' = {}
    /\ nTest' = nTest + 1
    /\ tpc' = "scale"
    /\ UNCHANGED <<args, last_epoch, best, caller, saved, nTrain, loaded>>

\* Lines 84-120: one iteration of the loop over the scales.
TestScale ==
    /\ tpc = "scale"
    /\ \E psnr \in PsnrVals :
        ckp_log' = [ckp_log EXCEPT ![Len(ckp_log)][idx_scale] = psnr]
    /\ best' = LogMax(ckp_log')
    /\ scaleDone' = scaleDone \cup {idx_scale}
    /\ idx_scale' = idx_scale + 1
    /\ tpc' = IF idx_scale = NumScales THEN "save" ELSE "scale"
    /\ UNCHANGED <<args, last_epoch, epoch, caller, saved, nTrain, nTest, loaded>>

\* Lines 122-126: the checkpoint, then return to the caller.
TestEnd ==
    /\ tpc = "save"
    /\ saved' = IF ~args.test_only
                THEN Append(saved, [epoch |-> epoch, is_best |-> IsBest(best, epoch),
                                    after |-> scaleDone, call |-> nTest,
                                    last_epoch |-> last_epoch, log |-> ckp_log])
                ELSE saved
    /\ tpc' = IF caller = "terminate" THEN DriverAfterTerminate(TRUE) ELSE DriverAfterTest
    /\ UNCHANGED <<args, last_epoch, ckp_log, idx_scale, epoch, best, caller,
                   scaleDone, nTrain, nTest, loaded>>

NextTrainer ==
    \/ TerminateTestOnly /\ UNCHANGED ganVars
    \/ Terminate /\ UNCHANGED ganVars
    \/ Train /\ UNCHANGED ganVars
    \/ TestBegin /\ UNCHANGED ganVars
    \/ TestScale /\ UNCHANGED ganVars
    \/ TestEnd /\ UNCHANGED ganVars

SpecTrainer == InitTrainer /\ [][NextTrainer]_vars

\* ================================================================ properties
\* ------------------------------------------------ ModelGAN: vocabulary
CallReturned == pc = "idle" /\ trace # <<>>
CallEnded == CallReturned \/ pc = "raised"
Count(ev) == Cardinality({i \in DOMAIN trace : trace[i] = ev})
Before(a, b) == \A i, j \in DOMAIN trace : trace[i] = a /\ trace[j] = b => i < j
InTrace(ev) == \E i \in DOMAIN trace : trace[i] = ev

\* The documented defaults and guard, stated from the options alone.
StatedRatio == IF opt.D_update_ratio \in {<<>>, <<0>>} THEN 1 ELSE opt.D_update_ratio[1]
StatedInit == IF opt.D_init_iters \in {<<>>, <<0>>} THEN 0 ELSE opt.D_init_iters[1]
StatedUpdateG(s) == s % StatedRatio = 0 /\ s > StatedInit
\* The smallest multiple of the ratio strictly greater than D_init_iters.
StatedFirstG == StatedRatio * ((StatedInit \div StatedRatio) + 1)
StatedGLoss ==
    {t \in {<<"pixel", opt.G_lossfn_weight>>, <<"feature", opt.F_lossfn_weight>>} : t[2] > 0}
    \cup {<<"gan", opt.D_lossfn_weight>>}

\* C1: in every call of optimize_parameters the discriminator optimizer steps
\* exactly once, the generator optimizer steps (once) iff
\* current_step % D_update_ratio = 0 and current_step > D_init_iters, and the
\* generator's step comes before the discriminator's.
C1_AlternatingUpdates ==
    CallEnded =>
        /\ Count("D_optimizer.step") = 1
        /\ Count("G_optimizer.step") = (IF StatedUpdateG(current_step) THEN 1 ELSE 0)
        /\ Before("G_optimizer.step", "D_optimizer.step")

\* The same statement for the calls that return (no exception).
L1_AlternatingWhenReturned ==
    CallReturned =>
        /\ Count("D_optimizer.step") = 1
        /\ Count("G_optimizer.step") = (IF StatedUpdateG(current_step) THEN 1 ELSE 0)
        /\ Before("G_optimizer.step", "D_optimizer.step")

\* C4: when the generator is updated, the loss backpropagated is exactly the
\* pixel term (iff G_lossfn_weight > 0), the feature term (iff
\* F_lossfn_weight > 0) and the adversarial term (always), each times its
\* weight; when it is not updated nothing is backpropagated into the
\* generator and its optimizer does not step.
C4_GeneratorLoss ==
    /\ InTrace("G_optimizer.step") =>
          /\ Count("G_optimizer.step") = 1
          /\ Count("loss_G_total.backward") = 1
          /\ Before("loss_G_total.backward", "G_optimizer.step")
          /\ loss_G_total = StatedGLoss
          /\ netG_grad = {"loss_G_total"}
    /\ ~InTrace("G_optimizer.step") =>
          /\ ~InTrace("loss_G_total.backward")
          /\ netG_grad = {}
    /\ (CallEnded /\ ~StatedUpdateG(current_step)) => ~InTrace("G_optimizer.step")

C4_Witness ==
    /\ CallReturned
    /\ InTrace("G_optimizer.step")
    /\ opt.G_lossfn_weight = 0 /\ opt.F_lossfn_weight = 1 /\ opt.D_lossfn_weight = 0
    /\ loss_G_total = {<<"feature", 1>>, <<"gan", 0>>}

\* C5: in distributed mode, for every gan_type handled, both l_d_real and
\* l_d_fake are backpropagated, each by its own backward call, before
\* D_optimizer.step().
C5_SeparateBackwards ==
    (opt.dist /\ InTrace("D_optimizer.step")) =>
        /\ Count("l_d_real.backward") = 1
        /\ Count("l_d_fake.backward") = 1
        /\ Before("l_d_real.backward", "D_optimizer.step")
        /\ Before("l_d_fake.backward", "D_optimizer.step")

\* The same statement for the gan types other than 'ragan'.
L5_SeparateBackwardsNonRagan ==
    (opt.dist /\ opt.gan_type # "ragan" /\ InTrace("D_optimizer.step")) =>
        /\ Count("l_d_real.backward") = 1
        /\ Count("l_d_fake.backward") = 1
        /\ {"l_d_real", "l_d_fake"} \subseteq netD_grad

\* C6: D_update_ratio defaults to 1 and D_init_iters to 0 (option None or 0);
\* with calls made at current_step 0, 1, 2, ... the generator's first update is
\* at the smallest multiple of D_update_ratio strictly greater than
\* D_init_iters (so not at step 0 nor at any step <= D_init_iters), the
\* discriminator is updated on every step, and with the defaults the generator
\* is updated on every step >= 1.
C6_WarmUp ==
    /\ D_update_ratio = StatedRatio
    /\ D_init_iters = StatedInit
    /\ InTrace("G_optimizer.step") => (current_step >= 1 /\ current_step > StatedInit)
    /\ (seq # <<>> /\ firstG # <<>>) => firstG = <<StatedFirstG>>
    /\ (seq # <<>> /\ CallEnded /\ current_step = StatedFirstG) => firstG = <<StatedFirstG>>
    /\ (seq # <<>> /\ CallEnded) => Count("D_optimizer.step") = 1
    /\ (/\ opt.D_update_ratio \in {<<>>, <<0>>}
        /\ opt.D_init_iters \in {<<>>, <<0>>}
        /\ CallEnded
        /\ current_step >= 1) => Count("G_optimizer.step") = 1

\* The same statement for the gan types the generator phase handles.
L6_WarmUpWhenHandled ==
    opt.gan_type \in {"gan", "lsgan", "wgangp", "ragan"} => C6_WarmUp

\* C7: the discriminator's parameters are frozen during the generator phase
\* and trainable again before the discriminator's forward/backward and when
\* the call returns, whether or not the generator was updated; the generator
\* phase changes no discriminator parameter and the discriminator phase
\* changes no generator parameter nor generator gradient.
C7_Frozen ==
    /\ pc \in {"G_phase", "unfreeze"} => ~D_requires_grad
    /\ pc \in {"D_phase", "D_step", "idle"} => D_requires_grad
C7_Frame ==
    /\ pc = "G_phase" => netD_params' = netD_params /\ netD_grad' = netD_grad
    /\ pc \in {"unfreeze", "D_phase", "D_step"} =>
          netG_params' = netG_params /\ netG_grad' = netG_grad
C7_ParameterIsolation == []C7_Frozen /\ [][C7_Frame]_vars

C7_Witness ==
    /\ CallReturned
    /\ InTrace("G_optimizer.step") /\ InTrace("D_optimizer.step")
    /\ D_requires_grad
    /\ netG_params # 0 /\ netD_params # 0

\* ------------------------------------------------- Trainer: vocabulary
InTest == tpc \in {"scale", "save"}
StatedTrainCalls == IF args.epochs <= 0 THEN 0 ELSE args.epochs
\* The 1-based row (= epoch) of the earliest maximum of the first scale.
StatedBestEpoch(log) ==
    CHOOSE r \in DOMAIN log :
        /\ \A r2 \in DOMAIN log : log[r2][1] <= log[r][1]
        /\ \A r2 \in DOMAIN log : r2 < r => log[r2][1] < log[r][1]

\* C2: without test_only, terminate() returns True iff last_epoch + 1 >=
\* args.epochs and changes nothing; on a fresh run the driver loop makes
\* exactly args.epochs train() calls (none when args.epochs <= 0).  With
\* test_only, terminate() runs test() once, returns True, train() never runs.
C2_TerminateStep ==
    (tpc = "terminate" /\ ~args.test_only) =>
        /\ tpc' = "exit" <=> last_epoch + 1 >= args.epochs
        /\ tpc' \in {"exit", "train"}
        /\ UNCHANGED <<args, last_epoch, ckp_log, saved, nTrain, nTest, loaded>>
C2_Counts ==
    /\ (~args.test_only /\ loaded = 0) =>
          /\ nTrain <= StatedTrainCalls
          /\ tpc = "exit" => nTrain = StatedTrainCalls
          /\ last_epoch = nTrain - 1
    /\ args.test_only =>
          /\ nTrain = 0 /\ nTest <= 1 /\ tpc # "train"
          /\ tpc = "exit" => nTest = 1
C2_TerminateAfterEpochs == []C2_Counts /\ [][C2_TerminateStep]_vars

C2_Witness ==
    /\ tpc = "exit" /\ ~args.test_only /\ loaded = 0
    /\ args.epochs = MaxEpochs /\ nTrain = MaxEpochs /\ nTest = MaxEpochs

\* C3: without test_only every test() calls ckp.save exactly once, after all
\* scales are evaluated, with the current epoch, and with is_best true iff the
\* current epoch is the earliest epoch whose first-scale PSNR is the maximum
\* over all rows of ckp.log; with test_only ckp.save is never called.
C3_SaveBest ==
    /\ args.test_only => saved = <<>>
    /\ ~args.test_only =>
          /\ Len(saved) = (IF InTest THEN nTest - 1 ELSE nTest)
          /\ \A i \in DOMAIN saved :
                /\ saved[i].call = i
                /\ saved[i].after = Scales
                /\ saved[i].epoch = saved[i].last_epoch + 1
                /\ saved[i].epoch = Len(saved[i].log)
                /\ saved[i].is_best <=> (StatedBestEpoch(saved[i].log) = saved[i].epoch)

\* A tie on the first scale with a better second scale: the later epoch is
\* not the best.
C3_Witness ==
    /\ ~args.test_only
    /\ \E i \in DOMAIN saved :
          /\ Len(saved[i].log) >= 2
          /\ ~saved[i].is_best
          /\ saved[i].log[Len(saved[i].log)][1] = saved[i].log[1][1]
          /\ saved[i].log[Len(saved[i].log)][NumScales] > saved[i].log[1][NumScales]
          /\ \E j \in DOMAIN saved : saved[j].is_best

====
